---- MODULE Spec2Model ----
(***************************************************************************)
(* A model of pngme: the chunk type (chunk_type.rs), the chunk with its    *)
(* CRC framing (chunk.rs), the PNG container (png.rs) and the four         *)
(* commands (commands.rs).                                                 *)
(*                                                                         *)
(* Bytes are the integers 0..255.  A u32 is kept as two 16-bit halves,     *)
(* [hi, lo], so that every u32 value (a CRC, a corrupted length field)     *)
(* is representable.  A Rust string is a sequence of characters, each      *)
(* character being the sequence of its UTF-8 bytes.  A Result is           *)
(* [ok |-> TRUE, val |-> v] or [ok |-> FALSE, err |-> e].                  *)
(***************************************************************************)
EXTENDS Integers, Sequences, FiniteSets, TLC

VARIABLES
    ct_call,    \* chunk type layer: the last construction call and its result
    ct_flags,   \* chunk type layer: the predicates read from the constructed type
    ck_pc,      \* chunk layer: "start", "built", "serialized" or "parsed"
    ck_chunk,   \* chunk layer: the Chunk built by Chunk::new
    ck_buf,     \* chunk layer: the byte buffer handed to Chunk::try_from
    ck_edit,    \* chunk layer: what was done to the buffer after as_bytes
    ck_res,     \* chunk layer: the result of Chunk::try_from(ck_buf)
    pg_png,     \* container layer: the Png the caller owns
    pg_prev,    \* container layer: the Png before the last operation
    pg_op,      \* container layer: the last operation, its argument and result
    fs,         \* commands: the files, by path
    fs_writes,  \* commands: how many times fs::write was called
    runs,       \* commands: how many times the program was started
    cmd,        \* commands: the running command, its arguments and position
    local       \* commands: the command's local values, output and result

vars == <<ct_call, ct_flags, ck_pc, ck_chunk, ck_buf, ck_edit, ck_res,
          pg_png, pg_prev, pg_op, fs, fs_writes, runs, cmd, local>>

None == [none |-> TRUE]

Ok(v) == [ok |-> TRUE, val |-> v]

Err(e) == [ok |-> FALSE, err |-> e]

(***************************************************************************)
(* Bit arithmetic on bytes.                                                *)
(***************************************************************************)
Pow2(n) == IF n = 0 THEN 1
           ELSE IF n = 1 THEN 2
           ELSE IF n = 2 THEN 4
           ELSE IF n = 3 THEN 8
           ELSE IF n = 4 THEN 16
           ELSE IF n = 5 THEN 32
           ELSE IF n = 6 THEN 64
           ELSE IF n = 7 THEN 128
           ELSE IF n = 8 THEN 256
           ELSE IF n = 9 THEN 512
           ELSE IF n = 10 THEN 1024
           ELSE IF n = 11 THEN 2048
           ELSE IF n = 12 THEN 4096
           ELSE IF n = 13 THEN 8192
           ELSE IF n = 14 THEN 16384
           ELSE IF n = 15 THEN 32768
           ELSE 65536

Bit(x, k) == (x \div Pow2(k)) % 2

RECURSIVE BitAndN(_, _, _)
BitAndN(a, b, n) ==
    IF n = 0 THEN 0
    ELSE (IF a % 2 = 1 /\ b % 2 = 1 THEN 1 ELSE 0)
         + 2 * BitAndN(a \div 2, b \div 2, n - 1)

RECURSIVE BitXorN(_, _, _)
BitXorN(a, b, n) ==
    IF n = 0 THEN 0
    ELSE (IF a % 2 # b % 2 THEN 1 ELSE 0)
         + 2 * BitXorN(a \div 2, b \div 2, n - 1)

\* bit k of a byte inverted
FlipBitOf(b, k) == IF Bit(b, k) = 1 THEN b - Pow2(k) ELSE b + Pow2(k)

\* u8 & u8
BitAnd8(a, b) == BitAndN(a, b, 8)

\* u8 >> n
Shr8(a, n) == a \div Pow2(n)

(***************************************************************************)
(* chunk_type.rs                                                           *)
(***************************************************************************)
BIT_OF_INTEREST == 32

BIT_SHIFT_NUM == 5

ANCILLARY_BYTE == 0

PRIVATE_BYTE == 1

RESERVED_BYTE == 2

SAFE_TO_COPY_BYTE == 3

\* u8::is_ascii_lowercase
is_ascii_lowercase(x) == 97 <= x /\ x <= 122

\* u8::is_ascii_uppercase
is_ascii_uppercase(x) == 65 <= x /\ x <= 90

\* value.iter().filter(|x| x.is_ascii_lowercase() || x.is_ascii_uppercase()).count()
LetterCount(code) ==
    Cardinality({i \in 1..Len(code) :
                    is_ascii_lowercase(code[i]) \/ is_ascii_uppercase(code[i])})

\* Rust arrays are indexed from 0, sequences from 1.
At(code, i) == code[i + 1]

bytes(t) == t.code

is_reserved_bit_valid(t) ==
    Shr8(BitAnd8(At(t.code, RESERVED_BYTE), BIT_OF_INTEREST), BIT_SHIFT_NUM) = 0

\* is_valid without the reserved bit test
is_valid_letters_only(t) == LetterCount(t.code) = 4

is_valid(t) == LetterCount(t.code) = 4 /\ is_reserved_bit_valid(t)

is_critical(t) ==
    Shr8(BitAnd8(At(t.code, ANCILLARY_BYTE), BIT_OF_INTEREST), BIT_SHIFT_NUM) = 0

is_public(t) ==
    Shr8(BitAnd8(At(t.code, PRIVATE_BYTE), BIT_OF_INTEREST), BIT_SHIFT_NUM) = 0

\* is_safe_to_copy with the comparison of the other three predicates
is_safe_to_copy_as_clear(t) ==
    Shr8(BitAnd8(At(t.code, SAFE_TO_COPY_BYTE), BIT_OF_INTEREST), BIT_SHIFT_NUM) = 0

is_safe_to_copy(t) ==
    Shr8(BitAnd8(At(t.code, SAFE_TO_COPY_BYTE), BIT_OF_INTEREST), BIT_SHIFT_NUM) = 1

RECURSIVE Flatten(_)
Flatten(ss) == IF ss = <<>> THEN <<>> ELSE Head(ss) \o Flatten(Tail(ss))

\* str::as_bytes: the UTF-8 bytes of the characters, in order
str_as_bytes(s) == Flatten(s)

\* try_from without the letter count: every array is accepted
ChunkType_try_from_unchecked(value) == Ok([code |-> value])

\* impl TryFrom<[u8; 4]> for ChunkType
ChunkType_try_from(value) ==
    IF LetterCount(value) = 4
    THEN Ok([code |-> value])
    ELSE Err("InvalidFormat")

\* from_str with the length test on characters (s.chars().count()) instead
\* of bytes
ChunkType_from_str_chars(s) ==
    LET bs == str_as_bytes(s) IN
    IF Len(s) # 4
    THEN Err("InvalidLen")
    ELSE ChunkType_try_from(<<bs[1], bs[2], bs[3], bs[4]>>)

\* impl FromStr for ChunkType
ChunkType_from_str(s) ==
    LET bs == str_as_bytes(s) IN
    IF Len(bs) # 4
    THEN Err("InvalidLen")
    ELSE ChunkType_try_from(<<bs[1], bs[2], bs[3], bs[4]>>)

\* Display that writes the text quoted, as Debug does
ChunkType_fmt_debug(t) == <<<<34>>>> \o [i \in 1..4 |-> <<t.code[i]>>] \o <<<<34>>>>

\* Display that writes the code in upper case
ChunkType_fmt_upper(t) ==
    [i \in 1..4 |-> <<IF is_ascii_lowercase(t.code[i]) THEN t.code[i] - 32 ELSE t.code[i]>>]

\* impl fmt::Display for ChunkType: the text whose UTF-8 bytes are the code
ChunkType_fmt(t) == [i \in 1..4 |-> <<t.code[i]>>]

(***************************************************************************)
(* u32 values as two 16-bit halves, and their big-endian byte form.        *)
(***************************************************************************)
\* u32::from_le_bytes: the first byte is the low one
u32_from_le_bytes(b) == [hi |-> b[4] * 256 + b[3], lo |-> b[2] * 256 + b[1]]

\* u32::from_be_bytes([u8; 4])
u32_from_be_bytes(b) == [hi |-> b[1] * 256 + b[2], lo |-> b[3] * 256 + b[4]]

\* u32::to_le_bytes: the low byte first
u32_to_le_bytes(x) ==
    <<x.lo % 256, x.lo \div 256, x.hi % 256, x.hi \div 256>>

\* u32::to_be_bytes
u32_to_be_bytes(x) ==
    <<x.hi \div 256, x.hi % 256, x.lo \div 256, x.lo % 256>>

\* usize as u32: the low 32 bits of the count
usize_as_u32(n) == [hi |-> (n \div 65536) % 65536, lo |-> n % 65536]

\* Iterator::take(n as usize).collect() on the remaining bytes, n a u32: at
\* most n of them.  No buffer of the model holds 65536 bytes, so a count
\* with a non-zero high half takes them all.
Take(rest, n) ==
    IF n.hi > 0 \/ n.lo >= Len(rest) THEN rest ELSE SubSeq(rest, 1, n.lo)

\* what the iterator has left after take(n) consumed its bytes
Skip(rest, n) ==
    IF n.hi > 0 \/ n.lo >= Len(rest) THEN <<>> ELSE SubSeq(rest, n.lo + 1, Len(rest))

U32(n) == [hi |-> 0, lo |-> n]

(***************************************************************************)
(* CRC-32/ISO-HDLC (crc crate, CRC_32_ISO_HDLC): reflected polynomial      *)
(* 0xEDB88320, initial value 0xFFFFFFFF, final xor 0xFFFFFFFF.             *)
(***************************************************************************)
\* one bit of the reflected division: shift right, xor the polynomial
\* (0xEDB8 = 60856, 0x8320 = 33568) when the bit shifted out was set
CrcShift(c) ==
    LET sh == [hi |-> c.hi \div 2, lo |-> (c.lo \div 2) + 32768 * (c.hi % 2)]
    IN IF c.lo % 2 = 1
       THEN [hi |-> BitXorN(sh.hi, 60856, 16), lo |-> BitXorN(sh.lo, 33568, 16)]
       ELSE sh

\* n bits of the division.  The tests on the intermediate value only make
\* it a value before the next step starts.
RECURSIVE CrcBits(_, _)
CrcBits(c, n) ==
    IF n = 0 THEN c
    ELSE LET s == CrcShift(c)
         IN IF s.hi >= 0 /\ s.lo >= 0 THEN CrcBits(s, n - 1) ELSE s

CrcByte(c, b) == CrcBits([hi |-> c.hi, lo |-> BitXorN(c.lo, b, 16)], 8)

RECURSIVE CrcUpdate(_, _)
CrcUpdate(c, bs) ==
    IF bs = <<>> THEN c
    ELSE LET s == CrcByte(c, Head(bs))
         IN IF s.hi >= 0 /\ s.lo >= 0 THEN CrcUpdate(s, Tail(bs)) ELSE s

\* Crc::<u32>::new(&CRC_32_ISO_HDLC).checksum(bytes)
checksum(bs) ==
    LET c == CrcUpdate([hi |-> 65535, lo |-> 65535], bs)
    IN [hi |-> 65535 - c.hi, lo |-> 65535 - c.lo]

(***************************************************************************)
(* chunk.rs                                                                *)
(***************************************************************************)
\* impl From<ChunkTypeError> for ChunkError
ChunkError_from(e) == [kind |-> "ChunkType", cause |-> e]

ChunkError(k) == [kind |-> k, cause |-> "none"]

\* Chunk::new whose length counts type_and_data instead of data
Chunk_new_type_and_data_len(chunk_type, data) ==
    [length |-> usize_as_u32(Len(bytes(chunk_type) \o data)),
     chunk_type |-> chunk_type,
     data |-> data,
     crc |-> checksum(bytes(chunk_type) \o data)]

\* Chunk::new whose CRC covers the data and leaves the type bytes out
Chunk_new_crc_of_data(chunk_type, data) ==
    [length |-> usize_as_u32(Len(data)),
     chunk_type |-> chunk_type,
     data |-> data,
     crc |-> checksum(data)]

\* Chunk::new
Chunk_new(chunk_type, data) ==
    [length |-> usize_as_u32(Len(data)),
     chunk_type |-> chunk_type,
     data |-> data,
     crc |-> checksum(bytes(chunk_type) \o data)]

\* as_bytes with the length written by to_le_bytes
as_bytes_le_length(c) ==
    <<c.length.lo % 256, c.length.lo \div 256, c.length.hi % 256, c.length.hi \div 256>>
        \o bytes(c.chunk_type) \o c.data \o u32_to_be_bytes(c.crc)

\* as_bytes that stops after the data: 8 + length bytes
as_bytes_without_crc(c) ==
    u32_to_be_bytes(c.length) \o bytes(c.chunk_type) \o c.data

\* Chunk::as_bytes
as_bytes(c) ==
    u32_to_be_bytes(c.length) \o bytes(c.chunk_type) \o c.data
        \o u32_to_be_bytes(c.crc)

\* try_from without the comparison of the stored and the computed CRC
Chunk_try_from_unverified(value) ==
    LET length_vec == Take(value, U32(4))
        it1 == Skip(value, U32(4))
        length == u32_from_be_bytes(length_vec)
        type_vec == Take(it1, U32(4))
        it2 == Skip(it1, U32(4))
        type_res == ChunkType_try_from(type_vec)
        data == Take(it2, length)
        it3 == Skip(it2, length)
        crc_vec == Take(it3, U32(4))
    IN IF Len(length_vec) # 4 THEN Err(ChunkError("InvalidLength"))
       ELSE IF Len(type_vec) # 4 THEN Err(ChunkError_from("InvalidLen"))
       ELSE IF ~type_res.ok THEN Err(ChunkError_from(type_res.err))
       ELSE IF Len(crc_vec) # 4 THEN Err(ChunkError("InvalidCrc"))
       ELSE Ok(Chunk_new(type_res.val, data))

\* try_from that compares the number of data bytes collected with length
\* and returns InvalidLength when they differ
Chunk_try_from_checked_data(value) ==
    LET length_vec == Take(value, U32(4))
        it1 == Skip(value, U32(4))
        length == u32_from_be_bytes(length_vec)
        type_vec == Take(it1, U32(4))
        it2 == Skip(it1, U32(4))
        type_res == ChunkType_try_from(type_vec)
        data == Take(it2, length)
        it3 == Skip(it2, length)
        crc_vec == Take(it3, U32(4))
        crc == u32_from_be_bytes(crc_vec)
        chunk == Chunk_new(type_res.val, data)
    IN IF Len(length_vec) # 4 THEN Err(ChunkError("InvalidLength"))
       ELSE IF Len(type_vec) # 4 THEN Err(ChunkError_from("InvalidLen"))
       ELSE IF ~type_res.ok THEN Err(ChunkError_from(type_res.err))
       ELSE IF usize_as_u32(Len(data)) # length THEN Err(ChunkError("InvalidLength"))
       ELSE IF Len(crc_vec) # 4 THEN Err(ChunkError("InvalidCrc"))
       ELSE IF chunk.crc # crc THEN Err(ChunkError("MismatchCrc"))
       ELSE Ok(chunk)

\* try_from that reads the CRC from the last 4 bytes of the buffer
Chunk_try_from_crc_at_end(value) ==
    LET length_vec == Take(value, U32(4))
        it1 == Skip(value, U32(4))
        length == u32_from_be_bytes(length_vec)
        type_vec == Take(it1, U32(4))
        it2 == Skip(it1, U32(4))
        type_res == ChunkType_try_from(type_vec)
        data == Take(it2, length)
        it3 == Skip(it2, length)
        crc_vec == IF Len(it3) < 4 THEN it3 ELSE SubSeq(it3, Len(it3) - 3, Len(it3))
        crc == u32_from_be_bytes(crc_vec)
        chunk == Chunk_new(type_res.val, data)
    IN IF Len(length_vec) # 4 THEN Err(ChunkError("InvalidLength"))
       ELSE IF Len(type_vec) # 4 THEN Err(ChunkError_from("InvalidLen"))
       ELSE IF ~type_res.ok THEN Err(ChunkError_from(type_res.err))
       ELSE IF Len(crc_vec) # 4 THEN Err(ChunkError("InvalidCrc"))
       ELSE IF chunk.crc # crc THEN Err(ChunkError("MismatchCrc"))
       ELSE Ok(chunk)

\* impl TryFrom<&[u8]> for Chunk
Chunk_try_from(value) ==
    LET length_vec == Take(value, U32(4))
        it1 == Skip(value, U32(4))
        length == u32_from_be_bytes(length_vec)
        type_vec == Take(it1, U32(4))
        it2 == Skip(it1, U32(4))
        type_res == ChunkType_try_from(type_vec)
        data == Take(it2, length)
        it3 == Skip(it2, length)
        crc_vec == Take(it3, U32(4))
        crc == u32_from_be_bytes(crc_vec)
        chunk == Chunk_new(type_res.val, data)
    IN IF Len(length_vec) # 4 THEN Err(ChunkError("InvalidLength"))
       ELSE IF Len(type_vec) # 4 THEN Err(ChunkError_from("InvalidLen"))
       ELSE IF ~type_res.ok THEN Err(ChunkError_from(type_res.err))
       ELSE IF Len(crc_vec) # 4 THEN Err(ChunkError("InvalidCrc"))
       ELSE IF chunk.crc # crc THEN Err(ChunkError("MismatchCrc"))
       ELSE Ok(chunk)

(***************************************************************************)
(* chunks.rs: the Chunk of an earlier state of the crate.  Chunk::new and  *)
(* Chunk::as_bytes are those of chunk.rs; try_from filters the bytes by    *)
(* index and unwraps the conversion of the type bytes.                     *)
(***************************************************************************)
IntoChunkError(k) == [kind |-> k, cause |-> "none"]

\* a call that did not return: the thread panicked at the named expression
Panicked(at) == [ok |-> FALSE, panic |-> at]

\* value.iter().enumerate().filter(|(i, _)| Range { start, end }.contains(&i))
Range(value, start, end) ==
    IF end >= Len(value) THEN SubSeq(value, start + 1, Len(value))
    ELSE SubSeq(value, start + 1, end)

\* impl TryFrom<&[u8]> for Chunk (chunks.rs).  length as usize is 64 bits
\* wide: a length of 65536 or more puts the data window past the end of
\* every buffer of the model and leaves the CRC window empty.
Chunks_try_from(value) ==
    LET length_vec == Range(value, 0, 4)
        length == u32_from_be_bytes(length_vec)
        chunk_type_vec == Range(value, 4, 8)
        type_res == ChunkType_try_from(chunk_type_vec)
        data == IF length.hi > 0 THEN Range(value, 8, Len(value))
                ELSE Range(value, 8, 8 + length.lo)
        crc_vec == IF length.hi > 0 THEN <<>>
                   ELSE Range(value, 8 + length.lo, 8 + 4 + length.lo)
        crc == u32_from_be_bytes(crc_vec)
        chunk == Chunk_new(type_res.val, data)
    IN IF Len(length_vec) # 4 THEN Err(IntoChunkError("InvalidLength"))
       ELSE IF Len(chunk_type_vec) # 4 THEN Panicked("chunk_type_vec.try_into().unwrap()")
       ELSE IF ~type_res.ok THEN Err(IntoChunkError("InvalidChunkType"))
       ELSE IF Len(crc_vec) # 4 THEN Err(IntoChunkError("InvalidCrc"))
       ELSE IF chunk.crc # crc THEN Err(IntoChunkError("MismatchCrc"))
       ELSE Ok(chunk)

(***************************************************************************)
(* png.rs: the container.  A Png is [header, chunks].                      *)
(***************************************************************************)
\* the fixed 8-byte signature: 137 "PNG" 13 10 26 10
SIGNATURE == <<137, 80, 78, 71, 13, 10, 26, 10>>

PngError(k) == [kind |-> k, cause |-> "none"]

\* a Chunk error crossing into the container layer keeps its cause
PngError_from(e) == [kind |-> "Chunk", cause |-> e]

Png_from_chunks(chunks) == [header |-> SIGNATURE, chunks |-> chunks]

\* the bytes Chunk::try_from read for the Chunk it returned: 4 length bytes,
\* 4 type bytes, the data and 4 CRC bytes
Consumed(chunk) == 4 + 4 + Len(chunk.data) + 4

\* Chunk::try_from on the bytes that remain, the cursor moved past each
\* Chunk, until the buffer ends; the first error ends the parse
RECURSIVE ParseChunks(_, _)
ParseChunks(rest, acc) ==
    IF rest = <<>> THEN Ok(Png_from_chunks(acc))
    ELSE LET r == Chunk_try_from(rest)
         IN IF ~r.ok THEN Err(PngError_from(r.err))
            ELSE ParseChunks(SubSeq(rest, Consumed(r.val) + 1, Len(rest)),
                             Append(acc, r.val))

\* Png::try_from(&[u8])
Png_try_from(value) ==
    IF Len(value) < 8 \/ SubSeq(value, 1, 8) # SIGNATURE
    THEN Err(PngError("InvalidSignature"))
    ELSE ParseChunks(SubSeq(value, 9, Len(value)), <<>>)

RECURSIVE ChunksBytes(_)
ChunksBytes(chunks) ==
    IF chunks = <<>> THEN <<>>
    ELSE as_bytes(Head(chunks)) \o ChunksBytes(Tail(chunks))

\* Png::as_bytes: the signature, then every Chunk's as_bytes in order
Png_as_bytes(png) == png.header \o ChunksBytes(png.chunks)

\* Png::append_chunk
append_chunk(png, chunk) == [png EXCEPT !.chunks = Append(png.chunks, chunk)]

\* the positions of the Chunks whose type displays as chunk_type
Matches(png, chunk_type) ==
    {i \in 1..Len(png.chunks) : ChunkType_fmt(png.chunks[i].chunk_type) = chunk_type}

Min(S) == CHOOSE x \in S : \A y \in S : x <= y

\* Png::chunk_by_type: the first match, if any
chunk_by_type(png, chunk_type) ==
    IF Matches(png, chunk_type) = {} THEN None
    ELSE [some |-> png.chunks[Min(Matches(png, chunk_type))]]

\* Png::remove_chunk: the Png afterwards and the result
remove_chunk(png, chunk_type) ==
    IF Matches(png, chunk_type) = {}
    THEN [png |-> png, res |-> Err(PngError("NotFoundChunk"))]
    ELSE LET i == Min(Matches(png, chunk_type))
         IN [png |-> [png EXCEPT !.chunks =
                         SubSeq(png.chunks, 1, i - 1)
                             \o SubSeq(png.chunks, i + 1, Len(png.chunks))],
             res |-> Ok(png.chunks[i])]

\* Png::chunks
chunks(png) == png.chunks

\* a file of the file system: absent, or its bytes
NoFile == [exists |-> FALSE, bytes |-> <<>>]

File(bs) == [exists |-> TRUE, bytes |-> bs]

\* the two paths the commands are given
Paths == {"in", "out"}

NoLocal == [bytes |-> <<>>, png |-> None, chunk_type |-> None,
            stdout |-> <<>>, result |-> None]

NoCmd == [name |-> "none", pc |-> "done", file_path |-> "in",
          chunk_type |-> <<>>, message |-> <<>>, output_file_path |-> None]

(***************************************************************************)
(* The inputs the model draws.                                             *)
(***************************************************************************)
\* bytes for a [u8; 4]: the edges of A-Z and a-z, the letters of "RuSt" and
\* "Rust", a digit, and a byte that is not ASCII
TypeByteSample ==
    {49, 64, 65, 82, 83, 90, 91, 96, 97, 115, 116, 117, 122, 123, 200}

\* characters of a type string: R u S s t, the digit 1, and the two-byte e-acute
CharSample == {<<82>>, <<117>>, <<83>>, <<115>>, <<116>>, <<49>>, <<195, 169>>}

MaxStrChars == 5

MaxDataLen == 2

MaxTrail == 2

DataByteSample == {0, 97, 255}

SeqsUpTo(S, n) == UNION {[1..k -> S] : k \in 0..n}

ByteArrays4 == [1..4 -> TypeByteSample]

TypeStrings == SeqsUpTo(CharSample, MaxStrChars)

\* "RuSt", "teSt", "zzzz"
Str(bs) == [i \in 1..Len(bs) |-> <<bs[i]>>]

RuSt == Str(<<82, 117, 83, 116>>)

teSt == Str(<<116, 101, 83, 116>>)

Rust == Str(<<82, 117, 115, 116>>)

Ru1t == Str(<<82, 117, 49, 116>>)

zzzz == Str(<<122, 122, 122, 122>>)

ChunkTypeSample == {ChunkType_from_str(s).val : s \in {RuSt, teSt}}

DataSample == SeqsUpTo(DataByteSample, MaxDataLen)

MaxChunks == 3

RUST == Str(<<82, 85, 83, 84>>)

\* the type strings the container is asked for
TypeNameSample == {RuSt, teSt, RUST, zzzz}

\* "hi"
MessageSample == {<<>>, <<104, 105>>}

PngChunkSample == {Chunk_new(t, d) : t \in ChunkTypeSample, d \in MessageSample}

\* the bits inverted in a container buffer: the low bit (another letter,
\* another length) and the high bit (no letter, a length past the buffer)
DamageBitSample == {0, 7}

\* a buffer that differs from buf by one inverted bit, by a cut anywhere
\* before its end, or by 1..MaxTrail equal bytes added after its end
Damaged(buf) ==
    {[buf EXCEPT ![i] = FlipBitOf(buf[i], k)] : i \in 1..Len(buf), k \in DamageBitSample}
        \cup {SubSeq(buf, 1, n) : n \in 0..(Len(buf) - 1)}
        \cup {buf \o [i \in 1..k |-> b] : k \in 1..MaxTrail, b \in DataByteSample}

MaxRuns == 2

\* "This is where your secret message will be!".as_bytes()
test_message ==
    <<84, 104, 105, 115, 32, 105, 115, 32, 119, 104, 101, 114, 101, 32, 121,
      111, 117, 114, 32, 115, 101, 99, 114, 101, 116, 32, 109, 101, 115, 115,
      97, 103, 101, 32, 119, 105, 108, 108, 32, 98, 101, 33>>

\* the Chunk of test_new_chunk
test_new_chunk == Chunk_new(ChunkType_from_str(RuSt).val, test_message)

\* a Chunk whose data is not UTF-8
BinaryChunk == Chunk_new(ChunkType_from_str(RuSt).val, <<255>>)

\* the file the commands are given: missing, empty, a signature alone, a
\* Png of one or two Chunks, one cut short, one with a damaged signature,
\* one with a damaged CRC
InputFileSample ==
    LET one == Png_as_bytes(Png_from_chunks(
                   <<Chunk_new(ChunkType_from_str(RuSt).val, <<104, 105>>)>>))
        two == Png_as_bytes(Png_from_chunks(
                   <<Chunk_new(ChunkType_from_str(teSt).val, <<>>), BinaryChunk>>))
    IN {NoFile,
        File(<<>>),
        File(SIGNATURE),
        File(one),
        File(two),
        File(SubSeq(one, 1, Len(one) - 3)),
        File([one EXCEPT ![1] = 138]),
        File([one EXCEPT ![Len(one)] = FlipBitOf(one[Len(one)], 0)])}

\* type arguments of the commands: "RuSt", "Rust", "Ru1t" and "Ru"
CmdTypeSample == {RuSt, Rust, Ru1t, Str(<<82, 117>>)}

\* message arguments of encode: "" and "hi"
CmdMessageSample == {Str(<<>>), Str(<<104, 105>>)}

(***************************************************************************)
(* The chunk type layer: one construction, then the predicates are read.   *)
(***************************************************************************)
TypeVars == <<ct_call, ct_flags>>

ChunkVars == <<ck_pc, ck_chunk, ck_buf, ck_edit, ck_res>>

PngVars == <<pg_png, pg_prev, pg_op>>

CmdVars == <<fs, fs_writes, runs, cmd, local>>

TypeIdle == ct_call = None /\ ct_flags = None

NoEdit == [kind |-> "none", at |-> 0, bit |-> 0]

ChunkIdle ==
    /\ ck_pc = "start"
    /\ ck_chunk = None
    /\ ck_buf = <<>>
    /\ ck_edit = NoEdit
    /\ ck_res = None

CallTryFrom ==
    /\ ct_call = None
    /\ \E value \in ByteArrays4 :
          ct_call' = [op |-> "try_from", arg |-> value,
                      res |-> ChunkType_try_from(value)]
    /\ UNCHANGED <<ct_flags, ChunkVars, PngVars, CmdVars>>

CallFromStr ==
    /\ ct_call = None
    /\ \E s \in TypeStrings :
          ct_call' = [op |-> "from_str", arg |-> s,
                      res |-> ChunkType_from_str(s)]
    /\ UNCHANGED <<ct_flags, ChunkVars, PngVars, CmdVars>>

QueryType ==
    /\ ct_call # None
    /\ ct_call.res.ok
    /\ ct_flags = None
    /\ LET t == ct_call.res.val
       IN ct_flags' = [bytes |-> bytes(t),
                       valid |-> is_valid(t),
                       critical |-> is_critical(t),
                       public |-> is_public(t),
                       reserved_bit_valid |-> is_reserved_bit_valid(t),
                       safe_to_copy |-> is_safe_to_copy(t),
                       display |-> ChunkType_fmt(t)]
    /\ UNCHANGED <<ct_call, ChunkVars, PngVars, CmdVars>>

NoOp == [op |-> "none"]

PngIdle ==
    /\ pg_png = Png_from_chunks(<<>>)
    /\ pg_prev = Png_from_chunks(<<>>)
    /\ pg_op = NoOp

CmdIdle ==
    /\ fs = [p \in Paths |-> NoFile]
    /\ fs_writes = 0
    /\ runs = 0
    /\ cmd = NoCmd
    /\ local = NoLocal

InitType == TypeIdle /\ ChunkIdle /\ PngIdle /\ CmdIdle

NextType == CallTryFrom \/ CallFromStr \/ QueryType

SpecType == InitType /\ [][NextType]_vars

(***************************************************************************)
(* The chunk layer: a Chunk is built and serialized, the buffer is left    *)
(* intact or damaged once, and Chunk::try_from reads it.                   *)
(***************************************************************************)
New ==
    /\ ck_pc = "start"
    /\ \E t \in ChunkTypeSample, d \in DataSample : ck_chunk' = Chunk_new(t, d)
    /\ ck_pc' = "built"
    /\ UNCHANGED <<ck_buf, ck_edit, ck_res, TypeVars, PngVars, CmdVars>>

AsBytes ==
    /\ ck_pc = "built"
    /\ ck_buf' = as_bytes(ck_chunk)
    /\ ck_pc' = "serialized"
    /\ UNCHANGED <<ck_chunk, ck_edit, ck_res, TypeVars, PngVars, CmdVars>>

Editable == ck_pc = "serialized" /\ ck_edit = NoEdit

FlipBit ==
    /\ Editable
    /\ \E i \in 1..Len(ck_buf), k \in 0..7 :
          /\ ck_buf' = [ck_buf EXCEPT ![i] = FlipBitOf(ck_buf[i], k)]
          /\ ck_edit' = [kind |-> "flip", at |-> i, bit |-> k]
    /\ UNCHANGED <<ck_pc, ck_chunk, ck_res, TypeVars, PngVars, CmdVars>>

Truncate ==
    /\ Editable
    /\ \E n \in 0..(Len(ck_buf) - 1) :
          /\ ck_buf' = SubSeq(ck_buf, 1, n)
          /\ ck_edit' = [kind |-> "truncate", at |-> n, bit |-> 0]
    /\ UNCHANGED <<ck_pc, ck_chunk, ck_res, TypeVars, PngVars, CmdVars>>

Extend ==
    /\ Editable
    /\ \E x \in SeqsUpTo(DataByteSample, MaxTrail) \ {<<>>} :
          /\ ck_buf' = ck_buf \o x
          /\ ck_edit' = [kind |-> "extend", at |-> Len(ck_buf), bit |-> 0]
    /\ UNCHANGED <<ck_pc, ck_chunk, ck_res, TypeVars, PngVars, CmdVars>>

TryFrom ==
    /\ ck_pc = "serialized"
    /\ ck_res' = Chunk_try_from(ck_buf)
    /\ ck_pc' = "parsed"
    /\ UNCHANGED <<ck_chunk, ck_buf, ck_edit, TypeVars, PngVars, CmdVars>>

\* the same buffer read by the try_from of chunks.rs
TryFromChunks ==
    /\ ck_pc = "serialized"
    /\ ck_res' = Chunks_try_from(ck_buf)
    /\ ck_pc' = "parsed_chunks"
    /\ UNCHANGED <<ck_chunk, ck_buf, ck_edit, TypeVars, PngVars, CmdVars>>

InitChunk == TypeIdle /\ ChunkIdle /\ PngIdle /\ CmdIdle

NextChunk ==
    New \/ AsBytes \/ FlipBit \/ Truncate \/ Extend \/ TryFrom \/ TryFromChunks

SpecChunk == InitChunk /\ [][NextChunk]_vars

(***************************************************************************)
(* The container layer: a Png that starts empty is appended to, searched,  *)
(* removed from, serialized, and parsed back from its own bytes.           *)
(***************************************************************************)
PngAppend ==
    /\ Len(pg_png.chunks) < MaxChunks
    /\ \E c \in PngChunkSample :
          /\ pg_png' = append_chunk(pg_png, c)
          /\ pg_op' = [op |-> "append_chunk", arg |-> c]
    /\ pg_prev' = pg_png
    /\ UNCHANGED <<TypeVars, ChunkVars, CmdVars>>

PngRemove ==
    /\ \E s \in TypeNameSample :
          /\ pg_png' = remove_chunk(pg_png, s).png
          /\ pg_op' = [op |-> "remove_chunk", arg |-> s,
                       res |-> remove_chunk(pg_png, s).res]
    /\ pg_prev' = pg_png
    /\ UNCHANGED <<TypeVars, ChunkVars, CmdVars>>

PngFind ==
    /\ \E s \in TypeNameSample :
          pg_op' = [op |-> "chunk_by_type", arg |-> s,
                    res |-> chunk_by_type(pg_png, s)]
    /\ pg_prev' = pg_png
    /\ UNCHANGED <<pg_png, TypeVars, ChunkVars, CmdVars>>

PngAsBytes ==
    /\ pg_op' = [op |-> "as_bytes", res |-> Png_as_bytes(pg_png)]
    /\ pg_prev' = pg_png
    /\ UNCHANGED <<pg_png, TypeVars, ChunkVars, CmdVars>>

\* the bytes just serialized are parsed; the Png parsed replaces the old one
PngTryFrom ==
    /\ pg_op.op = "as_bytes"
    /\ LET r == Png_try_from(pg_op.res)
       IN /\ pg_op' = [op |-> "try_from", arg |-> pg_op.res, res |-> r]
          /\ pg_png' = IF r.ok THEN r.val ELSE pg_png
    /\ pg_prev' = pg_png
    /\ UNCHANGED <<TypeVars, ChunkVars, CmdVars>>

\* a buffer that is not the serialization of the Png is parsed: the bytes
\* just serialized with one bit inverted, cut short, or with bytes added
PngTryFromDamaged ==
    /\ pg_op.op = "as_bytes"
    /\ Len(pg_png.chunks) < MaxChunks
    /\ \E b \in Damaged(pg_op.res) :
          LET r == Png_try_from(b)
          IN /\ pg_op' = [op |-> "try_from_damaged", arg |-> b, res |-> r]
             /\ pg_png' = IF r.ok THEN r.val ELSE pg_png
    /\ pg_prev' = pg_png
    /\ UNCHANGED <<TypeVars, ChunkVars, CmdVars>>

InitPng == TypeIdle /\ ChunkIdle /\ PngIdle /\ CmdIdle

NextPng ==
    \/ PngAppend
    \/ PngRemove
    \/ PngFind
    \/ PngAsBytes
    \/ PngTryFrom
    \/ PngTryFromDamaged

SpecPng == InitPng /\ [][NextPng]_vars

(***************************************************************************)
(* commands.rs, lib.rs: the four commands, one step per statement.  A file *)
(* is [exists, bytes]; a command that ends holds its result in             *)
(* local.result.                                                           *)
(***************************************************************************)
\* impl From<std::io::Error> for CommandError
CommandError_Filesystem == [kind |-> "Filesystem", cause |-> "io"]

\* impl From<PngError> for CommandError
CommandError_from_png(e) == [kind |-> "Png", cause |-> e]

\* impl From<ChunkTypeError> for CommandError
CommandError_from_chunk_type(e) == [kind |-> "Chunk", cause |-> ChunkError_from(e)]

\* str::from_utf8(bytes).is_ok(): well-formed UTF-8
RECURSIVE Utf8Valid(_)
Utf8Valid(bs) ==
    LET n == Len(bs)
        b == bs[1]
        Cont(i) == i <= n /\ bs[i] \in 128..191
        Rest(k) == Utf8Valid(SubSeq(bs, k + 1, n))
    IN IF n = 0 THEN TRUE
       ELSE IF b < 128 THEN Rest(1)
       ELSE IF b \in 194..223 THEN Cont(2) /\ Rest(2)
       ELSE IF b = 224 THEN n >= 2 /\ bs[2] \in 160..191 /\ Cont(3) /\ Rest(3)
       ELSE IF b = 237 THEN n >= 2 /\ bs[2] \in 128..159 /\ Cont(3) /\ Rest(3)
       ELSE IF b \in 225..239 THEN Cont(2) /\ Cont(3) /\ Rest(3)
       ELSE IF b = 240 THEN n >= 2 /\ bs[2] \in 144..191 /\ Cont(3) /\ Cont(4) /\ Rest(4)
       ELSE IF b = 244 THEN n >= 2 /\ bs[2] \in 128..143 /\ Cont(3) /\ Cont(4) /\ Rest(4)
       ELSE IF b \in 241..243 THEN Cont(2) /\ Cont(3) /\ Cont(4) /\ Rest(4)
       ELSE FALSE

\* "No encoded message."
NoEncodedMessage ==
    <<78, 111, 32, 101, 110, 99, 111, 100, 101, 100, 32, 109, 101, 115, 115, 97,
      103, 101, 46>>

\* impl fmt::Display for Chunk: length, type, number of data bytes, crc
Chunk_fmt(c) ==
    [Length |-> c.length, Type |-> ChunkType_fmt(c.chunk_type),
     Data |-> Len(c.data), Crc |-> c.crc]

\* the command returns: Ok(()) or an error
Return(r) == cmd' = [cmd EXCEPT !.pc = "done"] /\ local' = [local EXCEPT !.result = r]

Goto(pc) == cmd' = [cmd EXCEPT !.pc = pc]

\* pngme::run: the parsed arguments select the command
Invoke ==
    /\ cmd.pc = "done"
    /\ runs < MaxRuns
    /\ runs' = runs + 1
    /\ local' = NoLocal
    /\ \/ \E t \in CmdTypeSample, m \in CmdMessageSample, o \in {None, [some |-> "out"]} :
             cmd' = [name |-> "encode", pc |-> "read", file_path |-> "in",
                     chunk_type |-> t, message |-> m, output_file_path |-> o]
       \/ \E n \in {"decode", "remove"}, t \in CmdTypeSample :
             cmd' = [name |-> n, pc |-> "read", file_path |-> "in",
                     chunk_type |-> t, message |-> <<>>, output_file_path |-> None]
       \/ cmd' = [name |-> "print", pc |-> "read", file_path |-> "in",
                  chunk_type |-> <<>>, message |-> <<>>, output_file_path |-> None]
    /\ UNCHANGED <<fs, fs_writes, TypeVars, ChunkVars, PngVars>>

\* fs::read(&args.file_path)?
Read ==
    /\ cmd.pc = "read"
    /\ IF fs[cmd.file_path].exists
       THEN /\ local' = [local EXCEPT !.bytes = fs[cmd.file_path].bytes]
            /\ Goto("parse")
       ELSE Return(Err(CommandError_Filesystem))
    /\ UNCHANGED <<fs, fs_writes, runs, TypeVars, ChunkVars, PngVars>>

\* Png::try_from(..)?
Parse ==
    /\ cmd.pc = "parse"
    /\ LET r == Png_try_from(local.bytes)
       IN IF r.ok
          THEN /\ local' = [local EXCEPT !.png = r.val]
               /\ Goto(cmd.name)
          ELSE Return(Err(CommandError_from_png(r.err)))
    /\ UNCHANGED <<fs, fs_writes, runs, TypeVars, ChunkVars, PngVars>>

\* encode: ChunkType::from_str(&args.chunk_type)?
EncodeFromStr ==
    /\ cmd.pc = "encode"
    /\ LET r == ChunkType_from_str(cmd.chunk_type)
       IN IF r.ok
          THEN /\ local' = [local EXCEPT !.chunk_type = r.val]
               /\ Goto("encode_valid")
          ELSE Return(Err(CommandError_from_chunk_type(r.err)))
    /\ UNCHANGED <<fs, fs_writes, runs, TypeVars, ChunkVars, PngVars>>

\* encode: the is_valid() test left out
EncodeCheckValid_skipped ==
    /\ cmd.pc = "encode_valid"
    /\ Goto("encode_append")
    /\ UNCHANGED <<local, fs, fs_writes, runs, TypeVars, ChunkVars, PngVars>>

\* encode: if !chunk_type.is_valid() { return Err(..InvalidFormat) }
EncodeCheckValid ==
    /\ cmd.pc = "encode_valid"
    /\ IF ~is_valid(local.chunk_type)
       THEN Return(Err(CommandError_from_chunk_type("InvalidFormat")))
       ELSE Goto("encode_append") /\ UNCHANGED local
    /\ UNCHANGED <<fs, fs_writes, runs, TypeVars, ChunkVars, PngVars>>

\* encode: png.append_chunk(Chunk::new(chunk_type, args.message.as_bytes().to_vec()))
EncodeAppend ==
    /\ cmd.pc = "encode_append"
    /\ local' = [local EXCEPT !.png =
                    append_chunk(local.png,
                                 Chunk_new(local.chunk_type, str_as_bytes(cmd.message)))]
    /\ Goto("write")
    /\ UNCHANGED <<fs, fs_writes, runs, TypeVars, ChunkVars, PngVars>>

\* the path encode and remove write to
Target ==
    IF cmd.output_file_path = None THEN cmd.file_path ELSE cmd.output_file_path.some

\* fs::write(path, png.as_bytes())?: the file then holds the bytes; when the
\* write fails the file is as it was, or was created or truncated and holds
\* nothing
Write ==
    /\ cmd.pc = "write"
    /\ fs_writes' = fs_writes + 1
    /\ \/ /\ fs' = [fs EXCEPT ![Target] = File(Png_as_bytes(local.png))]
          /\ Return(Ok("unit"))
       \/ /\ fs' \in {fs, [fs EXCEPT ![Target] = File(<<>>)]}
          /\ Return(Err(CommandError_Filesystem))
    /\ UNCHANGED <<runs, TypeVars, ChunkVars, PngVars>>

\* decode: png.chunk_by_type(&args.chunk_type).ok_or(..NotFoundChunk)?, then
\* println! of the data as text, or of "No encoded message."
Decode ==
    /\ cmd.pc = "decode"
    /\ LET c == chunk_by_type(local.png, cmd.chunk_type)
       IN IF c = None
          THEN Return(Err(CommandError_from_png(PngError("NotFoundChunk"))))
          ELSE /\ cmd' = [cmd EXCEPT !.pc = "done"]
               /\ local' = [local EXCEPT
                              !.stdout = <<IF Utf8Valid(c.some.data)
                                           THEN c.some.data
                                           ELSE NoEncodedMessage>>,
                              !.result = Ok("unit")]
    /\ UNCHANGED <<fs, fs_writes, runs, TypeVars, ChunkVars, PngVars>>

\* remove: png.remove_chunk(&args.chunk_type)?
Remove ==
    /\ cmd.pc = "remove"
    /\ LET r == remove_chunk(local.png, cmd.chunk_type)
       IN IF r.res.ok
          THEN /\ local' = [local EXCEPT !.png = r.png]
               /\ Goto("write")
          ELSE Return(Err(CommandError_from_png(r.res.err)))
    /\ UNCHANGED <<fs, fs_writes, runs, TypeVars, ChunkVars, PngVars>>

\* print_chunks: png.chunks().iter().for_each(|c| println!("{}", c))
PrintChunks ==
    /\ cmd.pc = "print"
    /\ cmd' = [cmd EXCEPT !.pc = "done"]
    /\ local' = [local EXCEPT
                   !.stdout = [i \in 1..Len(chunks(local.png)) |->
                                  Chunk_fmt(chunks(local.png)[i])],
                   !.result = Ok("unit")]
    /\ UNCHANGED <<fs, fs_writes, runs, TypeVars, ChunkVars, PngVars>>

Init ==
    /\ TypeIdle /\ ChunkIdle /\ PngIdle
    /\ \E f \in InputFileSample : fs = [p \in Paths |-> IF p = "in" THEN f ELSE NoFile]
    /\ fs_writes = 0
    /\ runs = 0
    /\ cmd = NoCmd
    /\ local = NoLocal

Next ==
    \/ Invoke
    \/ Read
    \/ Parse
    \/ EncodeFromStr
    \/ EncodeCheckValid
    \/ EncodeAppend
    \/ Write
    \/ Decode
    \/ Remove
    \/ PrintChunks

Spec == Init /\ [][Next]_vars

(***************************************************************************)
(* Properties of the chunk type layer (SpecType).                          *)
(***************************************************************************)
IsAsciiLetter(b) == b \in (65..90) \cup (97..122)

\* bit 0x20 of a byte is clear
Bit20Clear(b) == (b % 64) < 32

TypeQueried == ct_flags # None

\* C7: is_valid() is true exactly when all 4 bytes are ASCII letters and bit
\* 0x20 of byte index 2 is clear; "RuSt" is valid, "Rust" is constructible
\* and not valid.
C7_ValidityPredicate ==
    /\ TypeQueried =>
          LET code == ct_call.res.val.code
          IN ct_flags.valid <=>
                ((\A i \in 1..4 : IsAsciiLetter(code[i])) /\ Bit20Clear(code[3]))
    /\ (TypeQueried /\ ct_call.op = "from_str" /\ ct_call.arg = RuSt) =>
          ct_flags.valid
    /\ (ct_call # None /\ ct_call.op = "from_str" /\ ct_call.arg = Rust) =>
          (ct_call.res.ok /\ (TypeQueried => ~ct_flags.valid))

C7_Witness ==
    /\ TypeQueried
    /\ ct_call.op = "from_str"
    /\ ct_call.arg = Rust
    /\ ~ct_flags.valid

\* C8: is_critical, is_public and is_reserved_bit_valid are true exactly
\* when bit 0x20 of byte 0, 1, 2 is clear, is_safe_to_copy exactly when bit
\* 0x20 of byte 3 is set, whether or not the type is valid.
C8_BitPredicates ==
    TypeQueried =>
        LET code == ct_call.res.val.code
        IN /\ ct_flags.critical <=> Bit20Clear(code[1])
           /\ ct_flags.public <=> Bit20Clear(code[2])
           /\ ct_flags.reserved_bit_valid <=> Bit20Clear(code[3])
           /\ ct_flags.safe_to_copy <=> ~Bit20Clear(code[4])

\* "Rust": not valid, critical, private, reserved bit set, safe to copy
C8_Witness ==
    /\ TypeQueried
    /\ ct_flags.bytes = <<82, 117, 115, 116>>
    /\ ~ct_flags.valid
    /\ ct_flags.critical
    /\ ~ct_flags.public
    /\ ~ct_flags.reserved_bit_valid
    /\ ct_flags.safe_to_copy

\* C9 as claimed: ChunkType::try_from([u8; 4]) succeeds for every array and
\* holds exactly its bytes.
C9_AlwaysConstructs ==
    (ct_call # None /\ ct_call.op = "try_from") =>
        (ct_call.res.ok /\ bytes(ct_call.res.val) = ct_call.arg)

\* C9: ChunkType::try_from([u8; 4]) succeeds exactly when all 4 bytes are
\* ASCII letters, and then holds exactly those bytes; for every other array
\* it returns the error InvalidFormat.
C9_ConstructsLettersOnly ==
    (ct_call # None /\ ct_call.op = "try_from") =>
        IF \A i \in 1..4 : IsAsciiLetter(ct_call.arg[i])
        THEN ct_call.res.ok /\ bytes(ct_call.res.val) = ct_call.arg
        ELSE ct_call.res = Err("InvalidFormat")

C9_Witness ==
    /\ ct_call # None
    /\ ct_call.op = "try_from"
    /\ ct_call.arg = <<82, 117, 49, 116>>
    /\ ct_call.res = Err("InvalidFormat")

\* C10: from_str(s) fails with InvalidLen exactly when s is not 4 bytes
\* long; for a 4-byte s it returns what try_from returns on those bytes:
\* InvalidFormat when some byte is not an ASCII letter (as for "Ru1t"),
\* otherwise a ChunkType whose bytes() are the bytes of s.
C10_FromStr ==
    (ct_call # None /\ ct_call.op = "from_str") =>
        LET bs == str_as_bytes(ct_call.arg)
        IN /\ (ct_call.res = Err("InvalidLen")) <=> (Len(bs) # 4)
           /\ Len(bs) = 4 =>
                 /\ ct_call.res = ChunkType_try_from(bs)
                 /\ IF \A i \in 1..4 : IsAsciiLetter(bs[i])
                    THEN ct_call.res.ok /\ bytes(ct_call.res.val) = bs
                    ELSE ct_call.res = Err("InvalidFormat")
           /\ ct_call.arg = Ru1t => ct_call.res = Err("InvalidFormat")

C10_Witness ==
    /\ ct_call # None
    /\ ct_call.op = "from_str"
    /\ ct_call.arg = Ru1t
    /\ ct_call.res = Err("InvalidFormat")

(***************************************************************************)
(* Properties of the chunk layer (SpecChunk).                              *)
(***************************************************************************)
\* C1: Chunk::try_from(Chunk::new(t, d).as_bytes()) succeeds and yields a
\* Chunk with the length, chunk_type, data and crc of Chunk::new(t, d).
C1_RecordRoundTrip ==
    (ck_pc = "parsed" /\ ck_edit = NoEdit) =>
        /\ ck_res.ok
        /\ ck_res.val.length = ck_chunk.length
        /\ ck_res.val.chunk_type = ck_chunk.chunk_type
        /\ ck_res.val.data = ck_chunk.data
        /\ ck_res.val.crc = ck_chunk.crc

C1_Witness ==
    /\ ck_pc = "parsed"
    /\ ck_edit = NoEdit
    /\ ck_res.ok
    /\ Len(ck_res.val.data) = MaxDataLen

\* the buffer holds 4 length bytes, 4 letters, the declared number of data
\* bytes and 4 checksum bytes (a length of 65536 or more is never complete
\* in a buffer of the model)
CompleteFraming(buf) ==
    /\ Len(buf) >= 12
    /\ buf[1] = 0
    /\ buf[2] = 0
    /\ Len(buf) >= 12 + buf[3] * 256 + buf[4]
    /\ \A i \in 5..8 : IsAsciiLetter(buf[i])

StoredCrcDiffers(buf) ==
    LET n == buf[3] * 256 + buf[4]
    IN SubSeq(buf, 9 + n, 12 + n) # u32_to_be_bytes(checksum(SubSeq(buf, 5, 8 + n)))

\* C2: a buffer with complete framing whose stored checksum differs from
\* the CRC-32 of type bytes ++ data is rejected with MismatchCrc; so is a
\* serialized Chunk with one bit of its data or checksum region inverted.
C2_ChecksumIntegrity ==
    ck_pc = "parsed" =>
        /\ (CompleteFraming(ck_buf) /\ StoredCrcDiffers(ck_buf)) =>
              ck_res = Err(ChunkError("MismatchCrc"))
        /\ (ck_edit.kind = "flip" /\ ck_edit.at > 8) =>
              ck_res = Err(ChunkError("MismatchCrc"))

C2_Witness ==
    /\ ck_pc = "parsed"
    /\ ck_edit.kind = "flip"
    /\ ck_edit.at > 8
    /\ ck_edit.at <= 8 + Len(ck_chunk.data)
    /\ ck_res = Err(ChunkError("MismatchCrc"))

\* the Chunks the chunk layer holds: the one built by Chunk::new and, after
\* a successful try_from of either file, the one returned
Serialized == ck_pc \in {"serialized", "parsed", "parsed_chunks"}

Parsed == ck_pc \in {"parsed", "parsed_chunks"}

\* C11 as stated: as_bytes returns exactly 8 + length bytes, and a
\* successful try_from read that many bytes of its buffer.
C11_SizeIs8PlusLength ==
    /\ (Serialized /\ ck_edit = NoEdit) => Len(ck_buf) = 8 + ck_chunk.length.lo
    /\ (Parsed /\ ck_res.ok) =>
          /\ Len(as_bytes(ck_res.val)) = 8 + ck_res.val.length.lo
          /\ SubSeq(ck_buf, 1, 8 + ck_res.val.length.lo) = as_bytes(ck_res.val)

\* C11 amended: as_bytes returns exactly 12 + length bytes (4 of length, 4
\* of type, the data, 4 of CRC), for a Chunk from Chunk::new and for a
\* Chunk from try_from; the bytes a successful try_from read are the first
\* 12 + length of its buffer, and they are the as_bytes of the Chunk
\* returned.
C11_SizeIs12PlusLength ==
    /\ (Serialized /\ ck_edit = NoEdit) =>
          /\ ck_chunk.length.hi = 0
          /\ Len(ck_buf) = 12 + ck_chunk.length.lo
    /\ (Parsed /\ ck_res.ok) =>
          /\ ck_res.val.length.hi = 0
          /\ Len(as_bytes(ck_res.val)) = 12 + ck_res.val.length.lo
          /\ Len(ck_buf) >= 12 + ck_res.val.length.lo
          /\ SubSeq(ck_buf, 1, 12 + ck_res.val.length.lo) = as_bytes(ck_res.val)

C11_Witness ==
    /\ ck_pc = "parsed"
    /\ ck_edit.kind = "extend"
    /\ ck_res.ok
    /\ ck_res.val.length.lo = MaxDataLen
    /\ Len(ck_buf) > 12 + MaxDataLen

\* buf is, byte for byte: the length of c, most significant byte first,
\* in positions 1..4; the type code in 5..8; the data in 9..8+n; the crc,
\* most significant byte first, in the last 4 positions; and nothing else
Layout(buf, c) ==
    LET n == Len(c.data)
    IN /\ Len(buf) = 4 + 4 + n + 4
       /\ \A i \in 1..Len(buf) : buf[i] \in 0..255
       /\ buf[1] * 256 + buf[2] = c.length.hi
       /\ buf[3] * 256 + buf[4] = c.length.lo
       /\ \A i \in 1..4 : buf[4 + i] = c.chunk_type.code[i]
       /\ \A i \in 1..n : buf[8 + i] = c.data[i]
       /\ buf[9 + n] * 256 + buf[10 + n] = c.crc.hi
       /\ buf[11 + n] * 256 + buf[12 + n] = c.crc.lo

\* C12: as_bytes emits, in this order and with nothing else, the length as
\* 4 big-endian bytes, the 4 type bytes, the data verbatim and the crc as 4
\* big-endian bytes, for a Chunk from Chunk::new and for a Chunk returned
\* by try_from.
C12_SerializedLayout ==
    /\ (Serialized /\ ck_edit = NoEdit) => Layout(ck_buf, ck_chunk)
    /\ (Parsed /\ ck_res.ok) => Layout(as_bytes(ck_res.val), ck_res.val)

C12_Witness ==
    /\ ck_pc = "serialized"
    /\ ck_edit = NoEdit
    /\ Len(ck_chunk.data) = MaxDataLen
    /\ ck_buf[3] * 256 + ck_buf[4] = MaxDataLen
    /\ ck_buf[9] = 255
    /\ Layout(ck_buf, ck_chunk)

\* the buffer holds 4 length bytes and 4 letters, and fewer bytes after
\* them than the length field declares
ShortData(buf) ==
    /\ Len(buf) >= 8
    /\ \A i \in 5..8 : IsAsciiLetter(buf[i])
    /\ \/ buf[1] * 256 + buf[2] > 0
       \/ buf[3] * 256 + buf[4] > Len(buf) - 8

\* C13 as stated: a buffer with a complete length field and a 4-letter type
\* but fewer than length bytes after the type is rejected with
\* InvalidLength.
C13_TruncatedDataInvalidLength ==
    (Parsed /\ ShortData(ck_buf)) => ck_res = Err(ChunkError("InvalidLength"))

\* C13 amended: such a buffer is rejected with InvalidCrc by the try_from
\* of chunk.rs and by the try_from of chunks.rs: the data read takes the
\* bytes that are left without a test, and the CRC read finds fewer than 4.
C13_TruncatedDataInvalidCrc ==
    /\ (ck_pc = "parsed" /\ ShortData(ck_buf)) =>
          ck_res = Err(ChunkError("InvalidCrc"))
    /\ (ck_pc = "parsed_chunks" /\ ShortData(ck_buf)) =>
          ck_res = Err(IntoChunkError("InvalidCrc"))

C13_Witness ==
    /\ ck_pc = "parsed"
    /\ ck_edit.kind = "truncate"
    /\ ck_edit.at > 8
    /\ ck_edit.at < 8 + Len(ck_chunk.data)
    /\ ShortData(ck_buf)
    /\ ck_res = Err(ChunkError("InvalidCrc"))

\* length is the number of data bytes, crc is the CRC-32 of the type bytes
\* followed by the data
RecordInvariant(c) ==
    /\ c.length.hi = 0
    /\ c.length.lo = Len(c.data)
    /\ c.crc = checksum(c.chunk_type.code \o c.data)

\* C15: every Chunk from Chunk::new or from a successful try_from has
\* length = number of data bytes and crc = CRC-32/ISO-HDLC(type bytes ++
\* data); a parsed Chunk's length is the big-endian length field of its
\* buffer, and the buffer holds that many data bytes and the 4 CRC bytes
\* (no buffer that declares more data than it holds is accepted).  The
\* Chunk of test_new_chunk has length 42 and crc 2882656334 = 43985 * 65536
\* + 55374, and "RuSt" alone has CRC 54404 * 65536 + 2364.
C15_RecordInvariant ==
    /\ ck_pc = "start" =>
          /\ test_new_chunk.length = U32(42)
          /\ test_new_chunk.crc = [hi |-> 43985, lo |-> 55374]
    /\ ck_pc = "built" =>
          /\ RecordInvariant(ck_chunk)
          /\ ck_chunk.data = <<>> =>
                (ck_chunk.crc = [hi |-> 54404, lo |-> 2364]
                    <=> ck_chunk.chunk_type.code = <<82, 117, 83, 116>>)
    /\ (Parsed /\ ck_res.ok) =>
          /\ RecordInvariant(ck_res.val)
          /\ ck_buf[1] * 256 + ck_buf[2] = ck_res.val.length.hi
          /\ ck_buf[3] * 256 + ck_buf[4] = ck_res.val.length.lo
          /\ Len(ck_buf) >= 12 + Len(ck_res.val.data)
          /\ ck_res.val.data = SubSeq(ck_buf, 9, 8 + ck_buf[3] * 256 + ck_buf[4])

\* a Chunk parsed by chunks.rs from a buffer longer than its declared
\* length demands
C15_Witness ==
    /\ ck_pc = "parsed_chunks"
    /\ ck_res.ok
    /\ RecordInvariant(ck_res.val)
    /\ ck_buf[3] * 256 + ck_buf[4] = MaxDataLen
    /\ Len(ck_res.val.data) = MaxDataLen
    /\ Len(ck_buf) > 12 + MaxDataLen

\* the error kinds a try_from may return: InvalidLength, an invalid chunk
\* type (ChunkError::ChunkType in chunk.rs, InvalidChunkType in chunks.rs),
\* InvalidCrc and MismatchCrc
TypedErrorKinds ==
    {"InvalidLength", "ChunkType", "InvalidChunkType", "InvalidCrc", "MismatchCrc"}

Returned(res) ==
    \/ res.ok /\ DOMAIN res = {"ok", "val"}
    \/ ~res.ok /\ DOMAIN res = {"ok", "err"} /\ res.err.kind \in TypedErrorKinds

\* C16: for every buffer (empty, 1 to 3 bytes, 4 to 7 bytes, cut anywhere
\* inside data or checksum, damaged, extended) try_from returns a Chunk or
\* one of the typed errors; it never panics.
C16_ParseTotal == Parsed => Returned(ck_res)

\* the try_from of chunk.rs alone returns a Chunk or a typed error for every
\* buffer
ChunkRsParseTotal == ck_pc = "parsed" => Returned(ck_res)

\* the buffer holds a length field below 65536, the 12 + length bytes of a
\* record and more bytes after them
HoldsMoreThanDeclared(buf) ==
    /\ Len(buf) > 12
    /\ buf[1] * 256 + buf[2] = 0
    /\ Len(buf) > 12 + buf[3] * 256 + buf[4]

\* the first 12 + declared-length bytes of such a buffer
DeclaredPrefix(buf) == SubSeq(buf, 1, 12 + buf[3] * 256 + buf[4])

\* C17: try_from of r.as_bytes() followed by any bytes succeeds with a
\* Chunk equal to r in all fields; the result of try_from is the result for
\* the first 12 + declared-length bytes of the buffer alone; and what is
\* returned is the Chunk and nothing else (no count of bytes consumed).
C17_TrailingBytesIgnored ==
    /\ (Parsed /\ ck_edit.kind = "extend") =>
          /\ ck_res.ok
          /\ ck_res.val.length = ck_chunk.length
          /\ ck_res.val.chunk_type = ck_chunk.chunk_type
          /\ ck_res.val.data = ck_chunk.data
          /\ ck_res.val.crc = ck_chunk.crc
    /\ (ck_pc = "parsed" /\ HoldsMoreThanDeclared(ck_buf)) =>
          ck_res = Chunk_try_from(DeclaredPrefix(ck_buf))
    /\ (ck_pc = "parsed_chunks" /\ HoldsMoreThanDeclared(ck_buf)) =>
          ck_res = Chunks_try_from(DeclaredPrefix(ck_buf))
    /\ (Parsed /\ ck_res.ok) =>
          /\ DOMAIN ck_res = {"ok", "val"}
          /\ DOMAIN ck_res.val = {"length", "chunk_type", "data", "crc"}

C17_Witness ==
    /\ ck_pc = "parsed"
    /\ ck_edit.kind = "extend"
    /\ Len(ck_buf) = 12 + Len(ck_chunk.data) + MaxTrail
    /\ ck_buf[Len(ck_buf)] = 255
    /\ DeclaredPrefix(ck_buf) # ck_buf
    /\ ck_res = Ok(ck_chunk)

(***************************************************************************)
(* Properties of the container layer (SpecPng).                            *)
(***************************************************************************)
\* C3: parsing the bytes a Png serializes to succeeds and gives exactly its
\* Chunks, equal position by position and in the same order.
C3_ContainerRoundTrip ==
    pg_op.op = "try_from" =>
        /\ pg_op.res.ok
        /\ Len(chunks(pg_op.res.val)) = Len(chunks(pg_prev))
        /\ \A i \in 1..Len(chunks(pg_prev)) :
              chunks(pg_op.res.val)[i] = chunks(pg_prev)[i]

\* a Png of MaxChunks Chunks, two of them of the same type, parsed back
C3_Witness ==
    /\ pg_op.op = "try_from"
    /\ pg_op.res.ok
    /\ Len(chunks(pg_png)) = MaxChunks
    /\ chunks(pg_png)[1].chunk_type = chunks(pg_png)[2].chunk_type
    /\ chunks(pg_png)[1].data # chunks(pg_png)[2].data

\* no Chunk of the Png has the type whose text is s
TypeAbsent(png, s) ==
    \A i \in 1..Len(png.chunks) : bytes(png.chunks[i].chunk_type) # str_as_bytes(s)

\* C4: remove_chunk(s) on a Png with no Chunk of type s fails with
\* NotFoundChunk (the spec's ChunkNotFound) and leaves the Chunks as they
\* were: same length, same Chunks, same order.
C4_RemoveAbsent ==
    (pg_op.op = "remove_chunk" /\ TypeAbsent(pg_prev, pg_op.arg)) =>
        /\ pg_op.res = Err(PngError("NotFoundChunk"))
        /\ Len(chunks(pg_png)) = Len(chunks(pg_prev))
        /\ chunks(pg_png) = chunks(pg_prev)

\* "RUST" is removed from a Png that holds "RuSt" Chunks only by name
C4_Witness ==
    /\ pg_op.op = "remove_chunk"
    /\ pg_op.arg = RUST
    /\ TypeAbsent(pg_prev, RUST)
    /\ Len(chunks(pg_prev)) = MaxChunks
    /\ bytes(chunks(pg_prev)[1].chunk_type) = str_as_bytes(RuSt)
    /\ pg_op.res = Err(PngError("NotFoundChunk"))
    /\ pg_png = pg_prev

\* C5: append_chunk always succeeds, makes the sequence one longer, puts
\* the Chunk last and leaves the earlier Chunks and their order alone; when
\* no earlier Chunk has its type, chunk_by_type of that type then returns a
\* Chunk equal to it.
C5_AppendFind ==
    pg_op.op = "append_chunk" =>
        LET r == pg_op.arg
            n == Len(chunks(pg_prev))
        IN /\ Len(chunks(pg_png)) = n + 1
           /\ chunks(pg_png)[n + 1] = r
           /\ SubSeq(chunks(pg_png), 1, n) = chunks(pg_prev)
           /\ \A s \in TypeNameSample :
                 (str_as_bytes(s) = bytes(r.chunk_type) /\ TypeAbsent(pg_prev, s)) =>
                     chunk_by_type(pg_png, s) = [some |-> r]

\* a "teSt" Chunk appended after "RuSt" Chunks only
C5_Witness ==
    /\ pg_op.op = "append_chunk"
    /\ Len(chunks(pg_prev)) = MaxChunks - 1
    /\ TypeAbsent(pg_prev, teSt)
    /\ bytes(pg_op.arg.chunk_type) = str_as_bytes(teSt)
    /\ chunk_by_type(pg_png, teSt) = [some |-> pg_op.arg]

\* the bytes after the first record of rest, whose framing is complete
AfterRecord(rest) == SubSeq(rest, 13 + rest[3] * 256 + rest[4], Len(rest))

\* the records of such a concatenation, field by field from their
\* positions, in buffer order
RECURSIVE RecordsOf(_)
RecordsOf(rest) ==
    IF rest = <<>> THEN <<>>
    ELSE LET n == rest[3] * 256 + rest[4]
         IN <<[length |-> [hi |-> 0, lo |-> n],
               chunk_type |-> [code |-> SubSeq(rest, 5, 8)],
               data |-> SubSeq(rest, 9, 8 + n),
               crc |-> [hi |-> rest[9 + n] * 256 + rest[10 + n],
                        lo |-> rest[11 + n] * 256 + rest[12 + n]]]>>
            \o RecordsOf(AfterRecord(rest))

\* the bytes from the first record that is not well-formed on; none when
\* rest is a concatenation of well-formed records that ends where rest ends
RECURSIVE FromFirstBadRecord(_)
FromFirstBadRecord(rest) ==
    IF rest # <<>> /\ CompleteFraming(rest) /\ ~StoredCrcDiffers(rest)
    THEN FromFirstBadRecord(AfterRecord(rest))
    ELSE rest

PngParsed == pg_op.op \in {"try_from", "try_from_damaged"}

\* C14: Png::try_from fails with InvalidSignature unless the first 8 bytes
\* are SIGNATURE; otherwise it succeeds exactly when the remaining bytes
\* are a concatenation of well-formed records ending at the end of the
\* buffer, and then returns all of them in buffer order; otherwise it
\* returns the error Chunk::try_from gave for the first record that is not
\* well-formed, wrapped, and no Png: the caller's Png is as it was.
C14_ParseAllOrNothing ==
    PngParsed =>
        LET buf == pg_op.arg
            r == pg_op.res
            rest == SubSeq(buf, 9, Len(buf))
            bad == FromFirstBadRecord(rest)
        IN IF Len(buf) < 8 \/ SubSeq(buf, 1, 8) # SIGNATURE
           THEN r = Err(PngError("InvalidSignature")) /\ pg_png = pg_prev
           ELSE IF bad = <<>>
           THEN /\ r = Ok([header |-> SIGNATURE, chunks |-> RecordsOf(rest)])
                /\ pg_png = r.val
           ELSE /\ ~r.ok
                /\ DOMAIN r = {"ok", "err"}
                /\ r.err.kind = "Chunk"
                /\ r.err.cause = Chunk_try_from(bad).err
                /\ pg_png = pg_prev

\* a buffer cut inside its second record: the first record is well-formed,
\* the parse fails with the second record's error and returns no Png
C14_Witness ==
    /\ pg_op.op = "try_from_damaged"
    /\ Len(pg_op.arg) >= 8
    /\ SubSeq(pg_op.arg, 1, 8) = SIGNATURE
    /\ CompleteFraming(SubSeq(pg_op.arg, 9, Len(pg_op.arg)))
    /\ ~StoredCrcDiffers(SubSeq(pg_op.arg, 9, Len(pg_op.arg)))
    /\ FromFirstBadRecord(SubSeq(pg_op.arg, 9, Len(pg_op.arg))) # <<>>
    /\ ~pg_op.res.ok
    /\ pg_op.res.err.kind = "Chunk"
    /\ Len(chunks(pg_png)) = 2

(***************************************************************************)
(* Properties of the commands (Spec).                                      *)
(***************************************************************************)
\* this step calls fs::write or changes a file
FileWritten == fs_writes' # fs_writes \/ fs' # fs

\* what holds of every step of a command
NoWriteBeforeSuccess ==
    /\ FileWritten =>
          /\ cmd.name \in {"encode", "remove"}
          /\ cmd.pc = "write"
          /\ fs[cmd.file_path].exists
          /\ LET p == Png_try_from(fs[cmd.file_path].bytes)
                 t == ChunkType_from_str(cmd.chunk_type)
             IN /\ p.ok
                /\ cmd.name = "encode" =>
                      /\ t.ok
                      /\ is_valid(t.val)
                      /\ local.png =
                            append_chunk(p.val,
                                         Chunk_new(t.val, str_as_bytes(cmd.message)))
                /\ cmd.name = "remove" =>
                      /\ ~TypeAbsent(p.val, cmd.chunk_type)
                      /\ local.png = remove_chunk(p.val, cmd.chunk_type).png
          /\ \A q \in Paths \ {Target} : fs'[q] = fs[q]
          /\ fs'[Target] = File(Png_as_bytes(local.png)) \/ ~local'.result.ok
    /\ (/\ cmd.name \in {"encode", "remove"}
        /\ cmd.pc \notin {"done", "write"}
        /\ cmd'.pc = "done") => ~local'.result.ok

\* C6: encode and remove call fs::write only in their last step, after the
\* file was read, the Png parsed, the type tag parsed and found valid
\* (encode) or the chunk found (remove), and what they write is the
\* serialized Png; a command that ends before that step returns an error
\* and writes nothing; decode and print write nothing.
C6_NoWriteBeforeFullSuccess == [][NoWriteBeforeSuccess]_vars

\* encode has written a Png of two or more Chunks to the output path
C6_Witness ==
    /\ cmd.name = "encode"
    /\ cmd.pc = "done"
    /\ local.result = Ok("unit")
    /\ fs_writes > 0
    /\ Len(chunks(local.png)) >= 2
    /\ fs["out"] = File(Png_as_bytes(local.png))

====
